---- MODULE Spec2Model ----
(***************************************************************************)
(* Model of the gophor file cache: FileCache.Fetch, the freshness monitor  *)
(* checkCacheFreshness, and the files they cache.                          *)
(*                                                                         *)
(* Every goroutine that serves a request runs Fetch; one more goroutine is *)
(* the monitor.  A program counter names the source line a goroutine is    *)
(* about to execute.  sync.RWMutex is modelled as Go implements it: a      *)
(* writer first takes the writer slot (from then on new readers block) and *)
(* then waits for the readers that are inside to leave.                    *)
(***************************************************************************)
EXTENDS Integers, Sequences, FiniteSets, TLC

(* Bounds of the model *)
NFetchers == 2
NPaths == 3
NHotPaths == 2
NFsPaths == 1
MaxSize == 2
MaxFiles == 4
MaxFsOps == 2
MaxFsOpsConc == 1
MaxLines == 3
MaxTextLen == 3
PageWidth == 2

Monitor == 0
Fetchers == 1 .. NFetchers
Procs == {Monitor} \cup Fetchers
Paths == 1 .. NPaths
HotPaths == 1 .. NHotPaths
FsPaths == 1 .. NFsPaths
FileIds == 1 .. MaxFiles
(* The Fetches A, B, A, C of the LRU scenario *)
Script == <<1, 2, 1, 3>>

VARIABLES
    Size,        \* fc.Size
    CacheMap,    \* fc.CacheMap: path -> id of its FileElement
    FileList,    \* fc.FileList: front first; an element is named by the id of its FileElement
    files,       \* the File objects on the heap, by id
    fmu,         \* the RWMutex of each File
    CacheMutex,  \* fc.CacheMutex
    ListMutex,   \* fc.ListMutex: the set of its holders
    pc,          \* the line each Fetch goroutine is at ("idle": not in Fetch)
    path,        \* Fetch's argument
    fe,          \* Fetch's local fileElement (0: none)
    ret,         \* b, and what Fetch returned last
    mpc,         \* the line the monitor is at
    todo,        \* the paths the monitor's range loop has still to visit
    mpath,       \* the loop variable path
    mt,          \* timeModified
    disk,        \* the files on disk
    now,         \* the wall clock
    fsleft,      \* number of changes the disk will still see
    crashed,     \* the process died of a nil dereference
    touched,     \* history: this Fetch has changed CacheMap or FileList
    loads,       \* history: number of LoadContents calls of this Fetch
    want,        \* history: version on disk when a Fetch of a path the monitor found modified began
    checked,     \* history: paths whose entry the monitor examined against the current disk state
    step,        \* number of calls made of the scripted run
    audit,       \* whether what a Fetch returned is kept after the return
    gfs,         \* the gophermaps and the text files on disk, by name
    gdirs,       \* the directories listDir cannot open
    gc,          \* a GophermapContents: path and sections
    gout         \* what the last Load or Render of gc returned

cacheVars == <<CacheMap, FileList, files>>
lockVars == <<fmu, CacheMutex, ListMutex>>
thrVars == <<pc, path, fe, ret>>
monVars == <<mpc, todo, mpath, mt>>
envVars == <<disk, now, fsleft>>
histVars == <<touched, loads, want, checked, step>>
mapVars == <<gfs, gdirs, gc, gout>>
vars == <<Size, cacheVars, lockVars, thrVars, monVars, envVars, histVars, crashed, audit, mapVars>>

Range(f) == {f[x] : x \in DOMAIN f}

(* ---------------------------------------------------------------------- *)
(* Files                                                                   *)
(* ---------------------------------------------------------------------- *)
NoData == <<>>
Blank == [path |-> 0, fresh |-> FALSE, lastRefresh |-> 0, data |-> NoData, reloads |-> 0,
          gen |-> FALSE]
FreeMutex == [r |-> {}, w |-> {}]

(* What a read of the file yields: each write leaves contents of its own. *)
DiskData(p) == <<p, disk[p].mtime>>

(* File.LoadContents on success: the contents are those on disk, the file *)
(* is fresh and last-refresh is the time of the load.                     *)
LoadContents(f, p) ==
    [f EXCEPT !.data = DiskData(p), !.fresh = TRUE, !.lastRefresh = now,
              !.reloads = IF @ < 2 THEN @ + 1 ELSE @]

(* File.LoadContents on failure: fresh and last-refresh keep their values; *)
(* GophermapContents.Load drops the sections it had, other contents may    *)
(* keep them.                                                              *)
LoadFailed(f, keep) == [f EXCEPT !.data = IF keep THEN @ ELSE NoData]

SetUnfresh(f) == [f EXCEPT !.fresh = FALSE, !.reloads = 0]

(* File.LoadContents of a file with generated contents: nothing is read,  *)
(* the buffer stays, the file is fresh.                                   *)
LoadGenerated(f) ==
    [f EXCEPT !.fresh = TRUE, !.lastRefresh = now, !.reloads = IF @ < 2 THEN @ + 1 ELSE @]

(* Whether LoadContents of f succeeds, and what it leaves *)
CanLoad(f, p) == f.gen \/ disk[p].exists
Load(f, p) == IF f.gen THEN LoadGenerated(f) ELSE LoadContents(f, p)

Contents(f) == f.data

(* ---------------------------------------------------------------------- *)
(* sync.RWMutex and sync.Mutex                                             *)
(* ---------------------------------------------------------------------- *)
CanRLock(mu) == mu.w = {}
RLock(mu, t) == [mu EXCEPT !.r = @ \cup {t}]
RUnlock(mu, t) == [mu EXCEPT !.r = @ \ {t}]
CanLock(mu) == mu.w = {}
Lock(mu, t) == [mu EXCEPT !.w = {t}]
Granted(mu) == mu.r = {}
Unlock(mu, t) == [mu EXCEPT !.w = @ \ {t}]
WHeld(mu, t) == mu.w = {t} /\ mu.r = {}
RHeld(mu, t) == t \in mu.r

(* ---------------------------------------------------------------------- *)
(* container/list and the heap                                             *)
(* ---------------------------------------------------------------------- *)
PushFront(l, e) == <<e>> \o l
Back(l) == l[Len(l)]
Remove(l, e) == SelectSeq(l, LAMBDA x : x # e)
MoveToFront(l, e) == IF e \in Range(l) THEN <<e>> \o Remove(l, e) ELSE l
Delete(m, p) == [q \in DOMAIN m \ {p} |-> m[q]]

Live(m, l, loc) == Range(m) \cup Range(l) \cup (Range(loc) \ {0})
Collect(f, live) == [i \in FileIds |-> IF i \in live THEN f[i] ELSE Blank]
NewFile == CHOOSE i \in FileIds \ Live(CacheMap, FileList, fe) :
               \A j \in FileIds \ Live(CacheMap, FileList, fe) : i <= j
Active == {t \in Fetchers : pc[t] # "idle"}

(* ---------------------------------------------------------------------- *)
(* Gophermaps: the files, their lines, sections and rendered bytes         *)
(* ---------------------------------------------------------------------- *)
(* A string is the sequence of its pieces; a byte slice of menu output is *)
(* the sequence of its lines.                                             *)
RootMap == "a/gophermap"
SubMap == "b/gophermap"
TextFile == "b/f.txt"
GophermapNames == {RootMap, SubMap}
Names == GophermapNames \cup {TextFile}
Unreadable == [ok |-> FALSE, lines |-> << >>]
Readable(ls) == [ok |-> TRUE, lines |-> ls]

GophermapFileStr == "gophermap"
ReplaceStrHostname == "$hostname"
ServerHostname == "host"
GophermapRenderErrorStr == "Error rendering gophermap"

(* strings.HasSuffix(name, GophermapFileStr), strings.TrimSuffix *)
HasSuffix(name) == name \in GophermapNames
TrimSuffix(name) == IF name = RootMap THEN "a/" ELSE IF name = SubMap THEN "b/" ELSE name

(* The lines a gophermap can hold, by the type parseLineType gives them *)
Line(type, arg) == [type |-> type, arg |-> arg]

buildInfoLine(str) == [t |-> "i", s |-> str]
MenuLine(str) == [t |-> "m", s |-> str]
CrLf == [t |-> "crlf", s |-> << >>]

NoSections == << >>
NewGophermapText(contents) ==
    [kind |-> "text", contents |-> contents, path |-> "", Hidden |-> {}]
NewGophermapDirListing(p) ==
    [kind |-> "dir", contents |-> << >>, path |-> p, Hidden |-> {}]

(* readIntoGophermap, L242-246: the line goes out in pieces of PageWidth *)
minWidth(w) == IF w <= PageWidth THEN w ELSE PageWidth

RECURSIVE Reflow(_)
Reflow(line) ==
    IF Len(line) = 0
        THEN << >>
        ELSE LET length == minWidth(Len(line))
             IN  <<buildInfoLine(SubSeq(line, 1, length))>>
                     \o Reflow(SubSeq(line, length + 1, Len(line)))

(* L229-248: an empty line gives an empty info line *)
ReflowLine(line) == IF line = << >> THEN <<buildInfoLine(<< >>)>> ELSE Reflow(line)

RECURSIVE ReflowFrom(_, _, _)
ReflowFrom(lines, k, fileContents) ==
    IF k > Len(lines)
        THEN fileContents
        ELSE ReflowFrom(lines, k + 1, fileContents \o ReflowLine(lines[k]))

(* L208-263 *)
readIntoGophermap(fs, name) ==
    IF ~fs[name].ok
        THEN [err |-> TRUE, contents |-> << >>]
        ELSE LET fileContents == ReflowFrom(fs[name].lines, 1, << >>)
             IN  [err |-> FALSE,
                  contents |-> IF fileContents = << >> THEN <<CrLf>> ELSE fileContents]

(* L183: strings.Replace(line, ReplaceStrHostname, *ServerHostname, -1) *)
Replace(str) ==
    [k \in DOMAIN str |-> IF str[k] = ReplaceStrHostname THEN ServerHostname ELSE str[k]]

(* line[1:] of a directive line *)
Rest(line) == line.arg[1]

(* L140 as it would be without the check *)
IsCurrentNever(target, p) == FALSE

(* L140: if line[1:] == path *)
IsCurrent(target, p) == target = p

(* L148, L159 as they would be had the failure been passed over *)
OnSubErrorSkip(sections, target) == sections

(* L148, L159: insert error line *)
OnSubError(sections, target) ==
    Append(sections, NewGophermapText(<<buildInfoLine(<<"Error reading subgophermap: ", target>>)>>))

Max(a, b) == IF a >= b THEN a ELSE b

(* What a readGophermap that never returns is: the recursion has come    *)
(* back to a path it is parsing, reads the same lines again and goes on  *)
(* until the stack is exhausted.                                         *)
Overflow == [err |-> FALSE, hung |-> TRUE, sections |-> NoSections, depth |-> 0, calls |-> 0]

RECURSIVE readGophermap(_, _, _)
RECURSIVE Iterate(_, _, _, _, _)
RECURSIVE Scan(_, _, _, _, _)

(* L118-188: the iterator on one line; more is what it returns *)
Iterate(fs, p, stack, line, acc) ==
    CASE line.type = "TypeInfoNotStated" ->
            [acc EXCEPT !.sections = Append(@, NewGophermapText(<<buildInfoLine(line.arg)>>))]
      [] line.type = "TypeComment" -> acc
      [] line.type = "TypeHiddenFile" -> [acc EXCEPT !.hidden = @ \cup {Rest(line)}]
      [] line.type = "TypeSubGophermap" ->
            IF HasSuffix(Rest(line))
                THEN IF IsCurrent(Rest(line), p)
                         THEN acc
                         ELSE LET sub == readGophermap(fs, Rest(line), stack \cup {p})
                              IN  IF sub.hung
                                      THEN [acc EXCEPT !.hung = TRUE]
                                      ELSE [acc EXCEPT
                                               !.sections = IF sub.err
                                                                THEN OnSubError(@, Rest(line))
                                                                ELSE @ \o sub.sections,
                                               !.depth = Max(@, 1 + sub.depth),
                                               !.calls = @ + sub.calls]
                ELSE LET file == readIntoGophermap(fs, Rest(line))
                     IN  [acc EXCEPT
                             !.sections = IF file.err
                                              THEN OnSubError(@, Rest(line))
                                              ELSE Append(@, NewGophermapText(file.contents))]
      [] line.type = "TypeExec" ->
            [acc EXCEPT !.sections = Append(@, NewGophermapText(
                <<buildInfoLine(<<"Error: inline shell commands not yet supported">>)>>))]
      [] line.type = "TypeEnd" -> [acc EXCEPT !.more = FALSE]
      [] line.type = "TypeEndBeginList" -> [acc EXCEPT !.dirListing = TRUE, !.more = FALSE]
      [] OTHER ->
            [acc EXCEPT !.sections = Append(@, NewGophermapText(<<MenuLine(Replace(line.arg))>>))]

(* bufferedScan: the iterator runs on line after line until it returns false *)
Scan(fs, p, stack, k, acc) ==
    IF k > Len(fs[p].lines) \/ ~acc.more \/ acc.hung
        THEN acc
        ELSE Scan(fs, p, stack, k + 1, Iterate(fs, p, stack, fs[p].lines[k], acc))

(* L96-206.  depth is the deepest nesting of calls, calls their number. *)
readGophermap(fs, p, stack) ==
    IF p \in stack
        THEN Overflow
        ELSE IF ~fs[p].ok
            THEN [err |-> TRUE, hung |-> FALSE, sections |-> NoSections, depth |-> 1, calls |-> 1]
            ELSE LET acc == Scan(fs, p, stack, 1,
                                 [sections |-> NoSections, hidden |-> {}, dirListing |-> FALSE,
                                  more |-> TRUE, hung |-> FALSE, depth |-> 1, calls |-> 1])
                 IN  IF acc.hung
                         THEN Overflow
                         ELSE [err |-> FALSE, hung |-> FALSE,
                               sections |->
                                   IF acc.dirListing
                                       THEN Append(acc.sections,
                                                [NewGophermapDirListing(TrimSuffix(p))
                                                    EXCEPT !.Hidden = acc.hidden])
                                       ELSE acc.sections,
                               depth |-> acc.depth, calls |-> acc.calls]

(* listDir: the children of the directory that are not hidden, or an error *)
DirNames == <<"x", "y">>
listDir(p, hidden, failing) ==
    IF p \in failing
        THEN [err |-> TRUE, bytes |-> << >>]
        ELSE LET visible == SelectSeq(DirNames, LAMBDA n : n \notin hidden)
             IN  [err |-> FALSE, bytes |-> [k \in DOMAIN visible |-> MenuLine(<<p, visible[k]>>)]]

(* L71-73, L92-94: GophermapText.Render, GophermapDirListing.Render *)
SectionRender(section, failing) ==
    IF section.kind = "text"
        THEN [err |-> FALSE, bytes |-> section.contents]
        ELSE listDir(section.path, section.Hidden, failing)

(* L28 as it would be had the failed section been left out *)
RenderErrorLeftOut == << >>

(* L28: content = buildInfoLine(GophermapRenderErrorStr) *)
RenderError == <<buildInfoLine(<<GophermapRenderErrorStr>>)>>

(* L25-31 *)
RECURSIVE RenderFrom(_, _, _, _)
RenderFrom(sections, k, returnContents, failing) ==
    IF k > Len(sections)
        THEN returnContents
        ELSE LET r == SectionRender(sections[k], failing)
                 content == IF r.err THEN RenderError ELSE r.bytes
             IN  RenderFrom(sections, k + 1, returnContents \o content, failing)

(* L20-34: GophermapContents.Render *)
Render(sections, failing) == RenderFrom(sections, 1, << >>, failing)

NoGophermap ==
    /\ gfs = [n \in Names |-> Unreadable]
    /\ gdirs = {}
    /\ gc = [path |-> "", sections |-> NoSections]
    /\ gout = [op |-> "none", err |-> FALSE, bytes |-> << >>]

(* ---------------------------------------------------------------------- *)
(* Initial states                                                          *)
(* ---------------------------------------------------------------------- *)
InitCache(size) ==
    /\ Size = size
    /\ CacheMap = << >>
    /\ FileList = << >>
    /\ files = [i \in FileIds |-> Blank]
    /\ fmu = [i \in FileIds |-> FreeMutex]
    /\ CacheMutex = FreeMutex
    /\ ListMutex = {}

InitThreads(ops, keep) ==
    /\ audit = keep
    /\ pc = [t \in Fetchers |-> "idle"]
    /\ path = [t \in Fetchers |-> 0]
    /\ fe = [t \in Fetchers |-> 0]
    /\ ret = [t \in Fetchers |-> [kind |-> "none", b |-> NoData]]
    /\ todo = {}
    /\ mpath = 0
    /\ mt = 0
    /\ now = 1
    /\ fsleft = ops
    /\ crashed = FALSE
    /\ touched = [t \in Fetchers |-> FALSE]
    /\ loads = [t \in Fetchers |-> 0]
    /\ want = [t \in Fetchers |-> 0]
    /\ checked = {}
    /\ step = 0

InitRest(ops, keep) ==
    /\ InitThreads(ops, keep)
    /\ NoGophermap
    /\ mpc = "sleep"
    /\ disk = [p \in Paths |-> [exists |-> TRUE, mtime |-> 0]]

Init == (\E size \in 0 .. MaxSize : InitCache(size)) /\ InitRest(MaxFsOpsConc, FALSE)

InitSeq == (\E size \in 0 .. MaxSize : InitCache(size)) /\ InitRest(MaxFsOps, TRUE)

(* ---------------------------------------------------------------------- *)
(* FileCache.Fetch                                                         *)
(* ---------------------------------------------------------------------- *)
Touch(t) ==
    touched' = [touched EXCEPT ![t] = @ \/ CacheMap' # CacheMap \/ FileList' # FileList]

Modified(p) ==
    /\ p \in DOMAIN CacheMap
    /\ p \in checked
    /\ disk[p].exists
    /\ disk[p].mtime > files[CacheMap[p]].lastRefresh

Call(t, p) ==
    /\ ~crashed
    /\ pc[t] = "idle"
    /\ Cardinality(Live(CacheMap, FileList, fe)) + Cardinality(Active) + 1 <= MaxFiles
    /\ pc' = [pc EXCEPT ![t] = "L128"]
    /\ path' = [path EXCEPT ![t] = p]
    /\ ret' = [ret EXCEPT ![t] = [kind |-> "none", b |-> NoData]]
    /\ touched' = [touched EXCEPT ![t] = FALSE]
    /\ loads' = [loads EXCEPT ![t] = 0]
    /\ want' = [want EXCEPT ![t] = IF Modified(p) THEN disk[p].mtime ELSE 0]
    /\ UNCHANGED <<Size, cacheVars, lockVars, fe, monVars, envVars, checked, crashed, audit, mapVars>>

Begin(t, p) == Call(t, p) /\ UNCHANGED step

(* return: the goroutine leaves Fetch with the error or with b *)
Return(t, kind, b, n) ==
    /\ pc' = [pc EXCEPT ![t] = "idle"]
    /\ fe' = [fe EXCEPT ![t] = 0]
    /\ IF audit
          THEN /\ ret' = [ret EXCEPT ![t] = [kind |-> kind, b |-> b]]
               /\ loads' = [loads EXCEPT ![t] = n]
               /\ Touch(t)
               /\ UNCHANGED <<path, want>>
          ELSE /\ ret' = [ret EXCEPT ![t] = [kind |-> "none", b |-> NoData]]
               /\ loads' = [loads EXCEPT ![t] = 0]
               /\ touched' = [touched EXCEPT ![t] = FALSE]
               /\ path' = [path EXCEPT ![t] = 0]
               /\ want' = [want EXCEPT ![t] = 0]

BeginScript(t) ==
    /\ step < Len(Script)
    /\ Call(t, Script[step + 1])
    /\ step' = step + 1

(* L128-129: fc.CacheMutex.RLock(); fileElement, ok := fc.CacheMap[path] *)
FetchRLock(t) ==
    /\ ~crashed
    /\ pc[t] = "L128"
    /\ CanRLock(CacheMutex)
    /\ CacheMutex' = RLock(CacheMutex, t)
    /\ IF path[t] \in DOMAIN CacheMap
          THEN /\ fe' = [fe EXCEPT ![t] = CacheMap[path[t]]]
               /\ pc' = [pc EXCEPT ![t] = "L133"]
          ELSE /\ fe' = fe
               /\ pc' = [pc EXCEPT ![t] = "L155"]
    /\ UNCHANGED <<Size, cacheVars, fmu, ListMutex, path, ret, monVars, envVars,
                   loads, want, checked, step, crashed, audit, mapVars>>
    /\ Touch(t)

(* L133 as it would be had Fetch taken the write lock to read *)
FileLockable(t) == CanLock(fmu[fe[t]]) /\ Granted(fmu[fe[t]])

(* L133: when fileElement.File.RLock() returns *)
FileRLockable(t) == CanRLock(fmu[fe[t]])

(* L136 as it would be had Fetch loaded without swapping its read lock *)
AfterIsFreshNoSwap(t) == IF files[fe[t]].fresh THEN "L204" ELSE "L141"

(* L136: if !fileElement.File.IsFresh(), swap the read lock for the write lock *)
AfterIsFresh(t) == IF files[fe[t]].fresh THEN "L204" ELSE "L138"

(* L133-136: fileElement.File.RLock(); if !fileElement.File.IsFresh() *)
FetchFileRLock(t) ==
    /\ ~crashed
    /\ pc[t] = "L133"
    /\ FileRLockable(t)
    /\ fmu' = [fmu EXCEPT ![fe[t]] = RLock(@, t)]
    /\ pc' = [pc EXCEPT ![t] = AfterIsFresh(t)]
    /\ UNCHANGED <<Size, cacheVars, CacheMutex, ListMutex, path, fe, ret, monVars, envVars,
                   loads, want, checked, step, crashed, audit, mapVars>>
    /\ Touch(t)

(* L138 as it would be had the hit path let go of the map to reload *)
MapDroppedOnSwap(t) == RUnlock(CacheMutex, t)

(* L138: only the file's read lock is released, the map stays read-locked *)
MapOnSwap(t) == CacheMutex

(* L138: fileElement.File.RUnlock() *)
FetchFileRUnlock(t) ==
    /\ ~crashed
    /\ pc[t] = "L138"
    /\ fmu' = [fmu EXCEPT ![fe[t]] = RUnlock(@, t)]
    /\ CacheMutex' = MapOnSwap(t)
    /\ pc' = [pc EXCEPT ![t] = "L139"]
    /\ UNCHANGED <<Size, cacheVars, ListMutex, path, fe, ret, monVars, envVars,
                   loads, want, checked, step, crashed, audit, mapVars>>
    /\ Touch(t)

(* L139: fileElement.File.Lock(), the request *)
FetchFileLock(t) ==
    /\ ~crashed
    /\ pc[t] = "L139"
    /\ CanLock(fmu[fe[t]])
    /\ fmu' = [fmu EXCEPT ![fe[t]] = Lock(@, t)]
    /\ pc' = [pc EXCEPT ![t] = IF Granted(fmu[fe[t]]) THEN "L141" ELSE "L139w"]
    /\ UNCHANGED <<Size, cacheVars, CacheMutex, ListMutex, path, fe, ret, monVars, envVars,
                   loads, want, checked, step, crashed, audit, mapVars>>
    /\ Touch(t)

(* L139: fileElement.File.Lock(), woken by the last reader *)
FetchFileLockWait(t) ==
    /\ ~crashed
    /\ pc[t] = "L139w"
    /\ Granted(fmu[fe[t]])
    /\ pc' = [pc EXCEPT ![t] = "L141"]
    /\ UNCHANGED <<Size, cacheVars, lockVars, path, fe, ret, monVars, envVars,
                   loads, want, checked, step, crashed, audit, mapVars>>
    /\ Touch(t)

(* L141-150: LoadContents succeeds; fileElement.File.Unlock() *)
FetchReload(t) ==
    /\ ~crashed
    /\ pc[t] = "L141"
    /\ CanLoad(files[fe[t]], path[t])
    /\ files' = [files EXCEPT ![fe[t]] = Load(@, path[t])]
    /\ fmu' = [fmu EXCEPT ![fe[t]] = Unlock(@, t)]
    /\ loads' = [loads EXCEPT ![t] = @ + 1]
    /\ pc' = [pc EXCEPT ![t] = "L151"]
    /\ UNCHANGED <<Size, CacheMap, FileList, CacheMutex, ListMutex, path, fe, ret, monVars,
                   envVars, want, checked, step, crashed, audit, mapVars>>
    /\ Touch(t)

(* L145 as it would be had the error path left the map locked *)
MapKeptOnError(t) == CacheMutex

(* L145: fc.CacheMutex.RUnlock() on the error path *)
MapRUnlockOnError(t) == RUnlock(CacheMutex, t)

(* L141-146: LoadContents fails; unlock all and return the error *)
FetchReloadFail(t) ==
    /\ ~crashed
    /\ pc[t] = "L141"
    /\ ~CanLoad(files[fe[t]], path[t])
    /\ \E keep \in BOOLEAN :
          files' = Collect([files EXCEPT ![fe[t]] = LoadFailed(@, keep)],
                           Live(CacheMap, FileList, [fe EXCEPT ![t] = 0]))
    /\ fmu' = [fmu EXCEPT ![fe[t]] = Unlock(@, t)]
    /\ CacheMutex' = MapRUnlockOnError(t)
    /\ UNCHANGED <<Size, CacheMap, FileList, ListMutex, monVars,
                   envVars, checked, step, crashed, audit, mapVars>>
    /\ Return(t, "err", NoData, loads[t] + 1)

(* L151: fileElement.File.RLock() *)
FetchFileRelock(t) ==
    /\ ~crashed
    /\ pc[t] = "L151"
    /\ CanRLock(fmu[fe[t]])
    /\ fmu' = [fmu EXCEPT ![fe[t]] = RLock(@, t)]
    /\ pc' = [pc EXCEPT ![t] = "L204"]
    /\ UNCHANGED <<Size, cacheVars, CacheMutex, ListMutex, path, fe, ret, monVars, envVars,
                   loads, want, checked, step, crashed, audit, mapVars>>
    /\ Touch(t)

(* L155: fc.CacheMutex.RUnlock() *)
FetchMapRUnlock(t) ==
    /\ ~crashed
    /\ pc[t] = "L155"
    /\ CacheMutex' = RUnlock(CacheMutex, t)
    /\ pc' = [pc EXCEPT ![t] = "L156"]
    /\ UNCHANGED <<Size, cacheVars, fmu, ListMutex, path, fe, ret, monVars, envVars,
                   loads, want, checked, step, crashed, audit, mapVars>>
    /\ Touch(t)

(* L156: fc.CacheMutex.Lock(), the request *)
FetchMapLock(t) ==
    /\ ~crashed
    /\ pc[t] = "L156"
    /\ CanLock(CacheMutex)
    /\ CacheMutex' = Lock(CacheMutex, t)
    /\ pc' = [pc EXCEPT ![t] = IF Granted(CacheMutex) THEN "L159" ELSE "L156w"]
    /\ UNCHANGED <<Size, cacheVars, fmu, ListMutex, path, fe, ret, monVars, envVars,
                   loads, want, checked, step, crashed, audit, mapVars>>
    /\ Touch(t)

(* L156: fc.CacheMutex.Lock(), woken by the last reader *)
FetchMapLockWait(t) ==
    /\ ~crashed
    /\ pc[t] = "L156w"
    /\ Granted(CacheMutex)
    /\ pc' = [pc EXCEPT ![t] = "L159"]
    /\ UNCHANGED <<Size, cacheVars, lockVars, path, fe, ret, monVars, envVars,
                   loads, want, checked, step, crashed, audit, mapVars>>
    /\ Touch(t)

(* L170-174: the list and the map after the insert of a new file *)
Pushed == PushFront(FileList, NewFile)
Inserted(p) == (p :> NewFile) @@ CacheMap
Loaded(p) == [files EXCEPT ![NewFile] = LoadContents([Blank EXCEPT !.path = p], p)]
(* L177: if fc.FileList.Len() == fc.Size *)
AtCapacity == Len(Pushed) = Size
(* L178-181 *)
RemovePath(p) == Loaded(p)[Back(Pushed)].path

(* L159-196: the file loads, is inserted, and nothing or the back of the *)
(* list is evicted; fc.CacheMutex.Unlock()                               *)
FetchMiss(t) ==
    /\ ~crashed
    /\ pc[t] = "L159"
    /\ disk[path[t]].exists
    /\ LET p == path[t]
           id == NewFile
           evict == AtCapacity
           rp == RemovePath(p)
           map2 == IF evict THEN Delete(Inserted(p), rp) ELSE Inserted(p)
           list2 == IF evict THEN Remove(Pushed, Back(Pushed)) ELSE Pushed
       IN  /\ evict => rp \in DOMAIN Inserted(p)
           \* L187-188: Lock() and Unlock() of the file found under removePath
           /\ evict => (CanLock(fmu[Inserted(p)[rp]]) /\ Granted(fmu[Inserted(p)[rp]]))
           /\ CacheMap' = map2
           /\ FileList' = list2
           /\ fe' = [fe EXCEPT ![t] = id]
           /\ files' = Collect(Loaded(p), Live(map2, list2, [fe EXCEPT ![t] = id]))
    /\ CacheMutex' = Unlock(CacheMutex, t)
    /\ loads' = [loads EXCEPT ![t] = @ + 1]
    /\ pc' = [pc EXCEPT ![t] = "L197"]
    /\ UNCHANGED <<Size, fmu, ListMutex, path, ret, monVars, envVars,
                   want, checked, step, crashed, audit, mapVars>>
    /\ Touch(t)

(* L162-166: LoadContents of the new file fails *)
FetchMissFail(t) ==
    /\ ~crashed
    /\ pc[t] = "L159"
    /\ ~disk[path[t]].exists
    /\ CacheMutex' = Unlock(CacheMutex, t)
    /\ UNCHANGED <<Size, cacheVars, fmu, ListMutex, monVars, envVars,
                   checked, step, crashed, audit, mapVars>>
    /\ Return(t, "err", NoData, loads[t] + 1)

(* L187: fc.CacheMap[removePath] is nil: the process dies *)
FetchMissCrash(t) ==
    /\ ~crashed
    /\ pc[t] = "L159"
    /\ disk[path[t]].exists
    /\ AtCapacity
    /\ RemovePath(path[t]) \notin DOMAIN Inserted(path[t])
    /\ CacheMap' = Inserted(path[t])
    /\ FileList' = Pushed
    /\ files' = Loaded(path[t])
    /\ fe' = [fe EXCEPT ![t] = NewFile]
    /\ loads' = [loads EXCEPT ![t] = @ + 1]
    /\ crashed' = TRUE
    /\ pc' = [pc EXCEPT ![t] = "L187"]
    /\ UNCHANGED <<Size, lockVars, path, ret, monVars, envVars, want, checked, step, audit, mapVars>>
    /\ Touch(t)

(* L197 as it would be had the miss path gone on without the map lock *)
MapNotLockedAgain(t) == CacheMutex

(* L197: the miss path takes the map read lock again *)
MapRLockAgain(t) == RLock(CacheMutex, t)

(* L197: fc.CacheMutex.RLock() *)
FetchMapRelock(t) ==
    /\ ~crashed
    /\ pc[t] = "L197"
    /\ CanRLock(CacheMutex)
    /\ CacheMutex' = MapRLockAgain(t)
    /\ pc' = [pc EXCEPT ![t] = "L200"]
    /\ UNCHANGED <<Size, cacheVars, fmu, ListMutex, path, fe, ret, monVars, envVars,
                   loads, want, checked, step, crashed, audit, mapVars>>
    /\ Touch(t)

(* L200: file.RLock() *)
FetchNewFileRLock(t) ==
    /\ ~crashed
    /\ pc[t] = "L200"
    /\ CanRLock(fmu[fe[t]])
    /\ fmu' = [fmu EXCEPT ![fe[t]] = RLock(@, t)]
    /\ pc' = [pc EXCEPT ![t] = "L204"]
    /\ UNCHANGED <<Size, cacheVars, CacheMutex, ListMutex, path, fe, ret, monVars, envVars,
                   loads, want, checked, step, crashed, audit, mapVars>>
    /\ Touch(t)

(* L204-205: b := fileElement.File.Contents(); fileElement.File.RUnlock() *)
FetchContents(t) ==
    /\ ~crashed
    /\ pc[t] = "L204"
    /\ ret' = [ret EXCEPT ![t].b = Contents(files[fe[t]])]
    /\ fmu' = [fmu EXCEPT ![fe[t]] = RUnlock(@, t)]
    /\ pc' = [pc EXCEPT ![t] = "L208"]
    /\ UNCHANGED <<Size, cacheVars, CacheMutex, ListMutex, path, fe, monVars, envVars,
                   loads, want, checked, step, crashed, audit, mapVars>>
    /\ Touch(t)

(* L208: fc.ListMutex.Lock() *)
FetchListLock(t) ==
    /\ ~crashed
    /\ pc[t] = "L208"
    /\ ListMutex = {}
    /\ ListMutex' = {t}
    /\ pc' = [pc EXCEPT ![t] = "L209"]
    /\ UNCHANGED <<Size, cacheVars, fmu, CacheMutex, path, fe, ret, monVars, envVars,
                   loads, want, checked, step, crashed, audit, mapVars>>
    /\ Touch(t)

(* L210 as it would be had Fetch kept the list locked *)
ListKept(t) == ListMutex

(* L210: fc.ListMutex.Unlock() *)
ListUnlock(t) == ListMutex \ {t}

(* L209-210: fc.FileList.MoveToFront(fileElement.Element); fc.ListMutex.Unlock() *)
FetchMoveToFront(t) ==
    /\ ~crashed
    /\ pc[t] = "L209"
    /\ FileList' = MoveToFront(FileList, fe[t])
    /\ ListMutex' = ListUnlock(t)
    /\ pc' = [pc EXCEPT ![t] = "L212"]
    /\ UNCHANGED <<Size, CacheMap, files, fmu, CacheMutex, path, fe, ret, monVars, envVars,
                   loads, want, checked, step, crashed, audit, mapVars>>
    /\ Touch(t)

(* L212-214: fc.CacheMutex.RUnlock(); return b, nil *)
FetchReturn(t) ==
    /\ ~crashed
    /\ pc[t] = "L212"
    /\ CacheMutex' = RUnlock(CacheMutex, t)
    /\ files' = Collect(files, Live(CacheMap, FileList, [fe EXCEPT ![t] = 0]))
    /\ UNCHANGED <<Size, CacheMap, FileList, fmu, ListMutex, monVars, envVars,
                   checked, step, crashed, audit, mapVars>>
    /\ Return(t, "bytes", ret[t].b, loads[t])

(* ---------------------------------------------------------------------- *)
(* checkCacheFreshness, run by the monitor goroutine                       *)
(* ---------------------------------------------------------------------- *)
(* L55-58: cache.CacheMutex.RLock(); for path := range cache.CacheMap *)
MonRLock ==
    /\ ~crashed
    /\ mpc = "sleep"
    /\ CanRLock(CacheMutex)
    /\ CacheMutex' = RLock(CacheMutex, Monitor)
    /\ todo' = DOMAIN CacheMap
    /\ mpc' = "M58"
    /\ UNCHANGED <<Size, cacheVars, fmu, ListMutex, thrVars, mpath, mt, envVars, histVars, crashed, audit, mapVars>>

(* L58-65: the next path of the range; os.Stat succeeds *)
MonStat(p) ==
    /\ ~crashed
    /\ mpc = "M58"
    /\ p \in todo
    /\ disk[p].exists
    /\ todo' = todo \ {p}
    /\ mpath' = p
    /\ mt' = disk[p].mtime
    /\ mpc' = "M69"
    /\ UNCHANGED <<Size, cacheVars, lockVars, thrVars, envVars, histVars, crashed, audit, mapVars>>

(* L59-63: os.Stat fails; continue *)
MonStatFail(p) ==
    /\ ~crashed
    /\ mpc = "M58"
    /\ p \in todo
    /\ ~disk[p].exists
    /\ todo' = todo \ {p}
    /\ UNCHANGED <<Size, cacheVars, lockVars, thrVars, mpc, mpath, mt, envVars, histVars, crashed, audit, mapVars>>

(* L68-69: file := cache.CacheMap[path].File; file.Lock(), the request.   *)
(* The monitor holds the map read lock, so the map still has the path.    *)
MonFileLock ==
    /\ ~crashed
    /\ mpc = "M69"
    /\ CanLock(fmu[CacheMap[mpath]])
    /\ fmu' = [fmu EXCEPT ![CacheMap[mpath]] = Lock(@, Monitor)]
    /\ mpc' = IF Granted(fmu[CacheMap[mpath]]) THEN "M72" ELSE "M69w"
    /\ UNCHANGED <<Size, cacheVars, CacheMutex, ListMutex, thrVars, todo, mpath, mt, envVars,
                   histVars, crashed, audit, mapVars>>

(* L69: file.Lock(), woken by the last reader *)
MonFileLockWait ==
    /\ ~crashed
    /\ mpc = "M69w"
    /\ Granted(fmu[CacheMap[mpath]])
    /\ mpc' = "M72"
    /\ UNCHANGED <<Size, cacheVars, lockVars, thrVars, todo, mpath, mt, envVars, histVars, crashed, audit, mapVars>>

(* L72 as it would be with the comparison the wrong way round *)
IsOlder(f, timeModified) == f.fresh /\ f.lastRefresh > timeModified

(* L72 as it would be had the comparison let equal times through *)
IsNotOlder(f, timeModified) == f.fresh /\ f.lastRefresh <= timeModified

(* L72: file.IsFresh() && file.LastRefresh() < timeModified *)
IsNewer(f, timeModified) == f.fresh /\ f.lastRefresh < timeModified

(* L72-77: mark as unfresh if the file on disk is newer; file.Unlock() *)
MonCheck ==
    /\ ~crashed
    /\ mpc = "M72"
    /\ files' = [files EXCEPT ![CacheMap[mpath]] = IF IsNewer(@, mt) THEN SetUnfresh(@) ELSE @]
    /\ fmu' = [fmu EXCEPT ![CacheMap[mpath]] = Unlock(@, Monitor)]
    /\ checked' = IF audit /\ disk[mpath].exists /\ disk[mpath].mtime = mt
                          /\ files[CacheMap[mpath]].lastRefresh < mt
                     THEN checked \cup {mpath} ELSE checked
    /\ mpath' = 0
    /\ mt' = 0
    /\ mpc' = "M58"
    /\ UNCHANGED <<Size, CacheMap, FileList, CacheMutex, ListMutex, thrVars, todo, envVars,
                   touched, loads, want, step, crashed, audit, mapVars>>

(* L81: cache.CacheMutex.RUnlock(); then time.Sleep of startFileMonitor *)
MonRUnlock ==
    /\ ~crashed
    /\ mpc = "M58"
    /\ todo = {}
    /\ CacheMutex' = RUnlock(CacheMutex, Monitor)
    /\ mpc' = "sleep"
    /\ UNCHANGED <<Size, cacheVars, fmu, ListMutex, thrVars, todo, mpath, mt, envVars,
                   histVars, crashed, audit, mapVars>>

(* ---------------------------------------------------------------------- *)
(* The file system under the server root                                   *)
(* ---------------------------------------------------------------------- *)
(* A file is written: new contents, and a modification time that is the  *)
(* present instant or a later one.                                        *)
FsWrite(p) ==
    /\ ~crashed
    /\ fsleft > 0
    /\ \E later \in BOOLEAN :
          /\ now' = IF later THEN now + 1 ELSE now
          /\ disk' = [disk EXCEPT ![p] = [exists |-> TRUE, mtime |-> now']]
    /\ fsleft' = fsleft - 1
    /\ checked' = checked \ {p}
    /\ UNCHANGED <<Size, cacheVars, lockVars, thrVars, monVars, touched, loads, want, step, crashed, audit, mapVars>>

(* A file is removed or made unreadable. *)
FsRemove(p) ==
    /\ ~crashed
    /\ fsleft > 0
    /\ disk[p].exists
    /\ disk' = [disk EXCEPT ![p].exists = FALSE]
    /\ fsleft' = fsleft - 1
    /\ checked' = checked \ {p}
    /\ UNCHANGED <<Size, cacheVars, lockVars, thrVars, monVars, now, touched, loads, want, step,
                   crashed, audit, mapVars>>

(* ---------------------------------------------------------------------- *)
(* cachePolicyFiles, run once before the monitor and the requests start   *)
(* ---------------------------------------------------------------------- *)
CapsTxt == 1
RobotsTxt == 2
PolicyPaths == {CapsTxt, RobotsTxt}

(* The buffers, line by line; each line ends in DOSLineEnd. *)
generateCapsTxt ==
    << "CAPS", "",
       "# This is an automatically generated", "# server policy file: caps.txt", "",
       "CapsVersion=1", "ExpireCapsAfter=1800", "",
       "PathDelimeter=/", "PathIdentity=.", "PathParent=..", "PathParentDouble=FALSE",
       "PathEscapeCharacter=\\", "PathKeepPreDelimeter=FALSE", "",
       "ServerSoftware=Gophor", "ServerSoftwareVersion=GophorVersion",
       "ServerDescription=Config.Description", "ServerGeolocationString=Config.Geolocation",
       "ServerDefaultEncoding=ascii", "",
       "ServerAdmin=Config.AdminEmail" >>

generateRobotsTxt ==
    << "Usage-agent: *", "Disallow: *", "", "Crawl-delay: 99999", "",
       "# This server does not support scraping" >>

Generated(p) == IF p = CapsTxt THEN generateCapsTxt ELSE generateRobotsTxt

(* NewFile(&GeneratedFileContents{content}); file.LoadContents() *)
NewGenerated(p) == LoadGenerated([Blank EXCEPT !.path = p, !.data = Generated(p), !.gen = TRUE])

(* CacheMap.Put(path, file) on the cache c: the file enters the map and   *)
(* the front of the list.                                                 *)
Put(c, p) ==
    LET id == CHOOSE i \in FileIds \ Range(c.map) : \A j \in FileIds \ Range(c.map) : i <= j
    IN  [map |-> (p :> id) @@ c.map,
         list |-> PushFront(c.list, id),
         files |-> [c.files EXCEPT ![id] = NewGenerated(p)]]

(* L9-25, L28-44: a policy file that os.Stat does not find is generated *)
PutIfMissing(c, p) == IF disk[p].exists THEN c ELSE Put(c, p)

cachePolicyFiles ==
    /\ ~crashed
    /\ mpc = "boot"
    /\ LET c0 == [map |-> CacheMap, list |-> FileList, files |-> files]
           c2 == PutIfMissing(PutIfMissing(c0, CapsTxt), RobotsTxt)
       IN  /\ CacheMap' = c2.map
           /\ FileList' = c2.list
           /\ files' = c2.files
    /\ mpc' = "sleep"
    /\ UNCHANGED <<Size, lockVars, thrVars, todo, mpath, mt, envVars, histVars, crashed, audit, mapVars>>

(* ---------------------------------------------------------------------- *)
(* GophermapContents: Load, Render, Clear                                  *)
(* ---------------------------------------------------------------------- *)
cacheAll == <<Size, cacheVars, lockVars, thrVars, monVars, envVars, histVars, audit>>

(* L36-40: gc.sections, gophorErr = readGophermap(gc.path) *)
GophermapLoad ==
    /\ ~crashed
    /\ LET r == readGophermap(gfs, gc.path, {})
       IN  /\ ~r.hung
           /\ gc' = [gc EXCEPT !.sections = r.sections]
           /\ gout' = [op |-> "load", err |-> r.err, bytes |-> << >>]
    /\ UNCHANGED <<cacheAll, crashed, gfs, gdirs>>

(* L145: the recursion never returns; the stack overflows *)
GophermapLoadOverflow ==
    /\ ~crashed
    /\ readGophermap(gfs, gc.path, {}).hung
    /\ crashed' = TRUE
    /\ UNCHANGED <<cacheAll, mapVars>>

(* L20-34 *)
GophermapRender ==
    /\ ~crashed
    /\ gout' = [op |-> "render", err |-> FALSE, bytes |-> Render(gc.sections, gdirs)]
    /\ UNCHANGED <<cacheAll, crashed, gfs, gdirs, gc>>

(* L42-44 *)
GophermapClear ==
    /\ ~crashed
    /\ gc' = [gc EXCEPT !.sections = NoSections]
    /\ gout' = [op |-> "clear", err |-> FALSE, bytes |-> << >>]
    /\ UNCHANGED <<cacheAll, crashed, gfs, gdirs>>

(* A directory becomes unreadable, or readable again. *)
Dirs == {"a/", "b/"}
DirChange(d) ==
    /\ ~crashed
    /\ gdirs' = IF d \in gdirs THEN gdirs \ {d} ELSE gdirs \cup {d}
    /\ UNCHANGED <<cacheAll, crashed, gfs, gc, gout>>

(* The gophermaps the parser is given.  The root holds up to MaxLines     *)
(* lines of every type; the gophermap it may include is one of a few,     *)
(* among them one that includes itself and one that includes the root;    *)
(* the text file has an empty line and a line of MaxTextLen characters.   *)
RootLines ==
    { Line("TypeInfoNotStated", <<"hello">>),
      Line("TypeComment", <<"#">>),
      Line("TypeHiddenFile", <<"x">>),
      Line("TypeSubGophermap", <<RootMap>>),
      Line("TypeSubGophermap", <<SubMap>>),
      Line("TypeSubGophermap", <<TextFile>>),
      Line("TypeExec", <<"ls">>),
      Line("TypeEnd", <<".">>),
      Line("TypeEndBeginList", <<"*">>),
      Line("TypeMenu", <<"1item", ReplaceStrHostname>>) }

RootFiles ==
    {Unreadable} \cup {Readable(ls) : ls \in UNION {[1 .. n -> RootLines] : n \in 0 .. MaxLines}}

SubFiles ==
    { Unreadable,
      Readable(<< >>),
      Readable(<<Line("TypeMenu", <<"0sub">>)>>),
      Readable(<<Line("TypeEndBeginList", <<"*">>)>>),
      Readable(<<Line("TypeHiddenFile", <<"y">>), Line("TypeEndBeginList", <<"*">>)>>),
      Readable(<<Line("TypeMenu", <<"0sub">>), Line("TypeEndBeginList", <<"*">>)>>),
      Readable(<<Line("TypeSubGophermap", <<SubMap>>), Line("TypeMenu", <<"0sub">>)>>),
      Readable(<<Line("TypeSubGophermap", <<RootMap>>)>>) }

TextFiles ==
    { Unreadable,
      Readable(<< << >>, [k \in 1 .. MaxTextLen |-> "p"] >>) }

InitMap ==
    /\ InitCache(0)
    /\ InitThreads(0, FALSE)
    /\ mpc = "sleep"
    /\ disk = [p \in Paths |-> [exists |-> TRUE, mtime |-> 0]]
    /\ \E root \in RootFiles, sub \in SubFiles, text \in TextFiles :
          gfs = (RootMap :> root) @@ (SubMap :> sub) @@ (TextFile :> text)
    /\ gdirs = {}
    /\ gc = [path |-> RootMap, sections |-> NoSections]
    /\ gout = [op |-> "none", err |-> FALSE, bytes |-> << >>]

NextMap ==
    \/ GophermapLoad
    \/ GophermapLoadOverflow
    \/ GophermapRender
    \/ GophermapClear
    \/ \E d \in Dirs : DirChange(d)

SpecMap == InitMap /\ [][NextMap]_vars

(* ---------------------------------------------------------------------- *)
(* Specifications                                                          *)
(* ---------------------------------------------------------------------- *)
FetchStep(t) ==
    \/ FetchRLock(t)
    \/ FetchFileRLock(t)
    \/ FetchFileRUnlock(t)
    \/ FetchFileLock(t)
    \/ FetchReload(t)
    \/ FetchFileRelock(t)
    \/ FetchMapRUnlock(t)
    \/ FetchMapLock(t)
    \/ FetchMapLockWait(t)
    \/ FetchMiss(t)
    \/ FetchMissFail(t)
    \/ FetchMapRelock(t)
    \/ FetchNewFileRLock(t)
    \/ FetchContents(t)
    \/ FetchListLock(t)
    \/ FetchMoveToFront(t)
    \/ FetchReturn(t)

MonitorStep ==
    \/ MonRLock
    \/ \E p \in Paths : MonStat(p)
    \/ MonFileLock
    \/ MonFileLockWait
    \/ MonCheck
    \/ MonRUnlock

(* Request goroutines fetch concurrently while the monitor sweeps and the *)
(* files change on disk.                                                  *)
Next ==
    \/ \E t \in Fetchers, p \in HotPaths : Begin(t, p)
    \/ \E t \in Fetchers : FetchStep(t) \/ FetchFileLockWait(t) \/ FetchMissCrash(t)
    \/ MonitorStep
    \/ \E p \in FsPaths : MonStatFail(p) \/ FsWrite(p) \/ FsRemove(p)

Spec == Init /\ [][Next]_vars

(* The same under fair scheduling.  A goroutine that can run does run    *)
(* (the Go scheduler), and one that waits for a lock is not passed over  *)
(* for ever: a blocked sync.RWMutex reader is let in when the writer     *)
(* unlocks, before the next writer, a pending writer holds back new      *)
(* readers, and sync.Mutex hands over first-in first-out once a waiter   *)
(* has starved; hence strong fairness of each goroutine's steps.  The    *)
(* monitor sweeps again after every sleep (L37-46).  Requests arrive,    *)
(* and files change on disk, as they please.                             *)
FetcherStep(t) == FetchStep(t) \/ FetchFileLockWait(t) \/ FetchMissCrash(t)

MonitorSweep == MonitorStep \/ \E p \in FsPaths : MonStatFail(p)

Fairness ==
    /\ \A t \in Fetchers : SF_vars(FetcherStep(t))
    /\ SF_vars(MonitorSweep)

SpecFair == Init /\ [][Next]_vars /\ Fairness

(* One request goroutine: the Fetches run one after the other. *)
NextSeq ==
    \/ \E p \in HotPaths : Begin(1, p)
    \/ FetchStep(1)
    \/ FetchReloadFail(1)
    \/ MonitorStep
    \/ \E p \in FsPaths : MonStatFail(p) \/ FsWrite(p) \/ FsRemove(p)

SpecSeq == InitSeq /\ [][NextSeq]_vars

(* The server starts: the policy files may or may not exist on disk,     *)
(* cachePolicyFiles runs, then one request goroutine fetches the policy  *)
(* paths while the monitor sweeps and caps.txt changes on disk.          *)
InitPolicy ==
    /\ \E size \in 0 .. MaxSize : InitCache(size)
    /\ InitThreads(MaxFsOps, TRUE)
    /\ NoGophermap
    /\ mpc = "boot"
    /\ \E there \in [PolicyPaths -> BOOLEAN] :
          disk = [p \in Paths |-> [exists |-> (p \in PolicyPaths => there[p]), mtime |-> 0]]

BeginPolicy(t, p) == mpc # "boot" /\ Begin(t, p)

NextPolicy ==
    \/ cachePolicyFiles
    \/ \E p \in PolicyPaths : BeginPolicy(1, p)
    \/ FetchStep(1)
    \/ FetchReloadFail(1)
    \/ MonitorStep
    \/ \E p \in FsPaths : MonStatFail(p) \/ FsWrite(p) \/ FsRemove(p)

SpecPolicy == InitPolicy /\ [][NextPolicy]_vars

(* One request goroutine fetches A, B, A, C from a cache of capacity two; *)
(* every file stays readable.  With capacity two every one of the four    *)
(* Fetches is a miss (L177), so the steps of a hit are no part of it.     *)
InitLRU == InitCache(2) /\ InitRest(MaxFsOps, TRUE)

NextLRU ==
    \/ BeginScript(1)
    \/ FetchRLock(1)
    \/ FetchMapRUnlock(1)
    \/ FetchMapLock(1)
    \/ FetchMapLockWait(1)
    \/ FetchMiss(1)
    \/ FetchMapRelock(1)
    \/ FetchNewFileRLock(1)
    \/ FetchContents(1)
    \/ FetchListLock(1)
    \/ FetchMoveToFront(1)
    \/ FetchReturn(1)
    \/ MonitorStep
    \/ \E p \in FsPaths : FsWrite(p)

SpecLRU == InitLRU /\ [][NextLRU]_vars

(* ---------------------------------------------------------------------- *)
(* Properties                                                              *)
(* ---------------------------------------------------------------------- *)
Returned(t) == pc[t] = "idle" /\ ret[t].kind # "none"
ListPaths == {files[FileList[k]].path : k \in DOMAIN FileList}
HoldsMap(q) == q \in CacheMutex.r \cup CacheMutex.w
HoldsFile(q) == \E i \in FileIds : q \in fmu[i].r \cup fmu[i].w
HoldsList(q) == q \in ListMutex

(* C1: whenever a Fetch has returned, the map holds at most Size paths.   *)
(* Stated as claimed; a cache of capacity 0 never evicts (L177).          *)
C1_BoundedMembership ==
    (\E t \in Fetchers : Returned(t)) => Cardinality(DOMAIN CacheMap) <= Size

(* C2: outside the map-write critical section the paths of the map are    *)
(* the paths of the list, and the list holds each path once.  Stated as   *)
(* claimed; two concurrent misses of one path insert it twice.            *)
C2_MapEqualsList ==
    (CacheMutex.w = {}) =>
        /\ ListPaths = DOMAIN CacheMap
        /\ \A j, k \in DOMAIN FileList :
              files[FileList[j]].path = files[FileList[k]].path => j = k

(* C3: a stale entry is loaded once, however many Fetches find it stale:  *)
(* no entry is loaded twice without having been marked unfresh in         *)
(* between.  Stated as claimed; L139-141 does not look at IsFresh again.  *)
C3_ReloadOnce == \A i \in FileIds : files[i].reloads <= 1

(* C4: a Fetch that returned bytes, with no other Fetch running, leaves   *)
(* its path in the map and at the front of the list.  Stated as claimed;  *)
(* with capacity 1 the new entry is itself evicted.                       *)
C4_FetchedIsFront ==
    \A t \in Fetchers :
        (Returned(t) /\ ret[t].kind = "bytes") =>
            /\ path[t] \in DOMAIN CacheMap
            /\ FileList # << >>
            /\ FileList[1] = CacheMap[path[t]]

(* C5: capacity 2, Fetches of A, B, A, C one after the other, all loads   *)
(* succeeding: the cache then holds exactly A and C.  Stated as claimed;  *)
(* L177 evicts as soon as the list has Size elements.                     *)
C5_ABAC ==
    (step = Len(Script) /\ Returned(1) /\ ret[1].kind = "bytes") => DOMAIN CacheMap = {1, 3}

(* C6: a Fetch that returned an error returned no bytes, holds no lock,   *)
(* and has changed neither the map nor the list.                          *)
C6_ErrorLeavesCacheAlone ==
    \A t \in Fetchers :
        (Returned(t) /\ ret[t].kind = "err") =>
            /\ ret[t].b = NoData
            /\ ~HoldsMap(t) /\ ~HoldsFile(t) /\ ~HoldsList(t)
            /\ ~touched[t]

(* C6 happens: the load of a cached, stale entry failed. *)
C6_Witness ==
    \E t \in Fetchers :
        /\ Returned(t) /\ ret[t].kind = "err"
        /\ path[t] \in DOMAIN CacheMap
        /\ loads[t] = 1

(* C7: once the monitor has swept over a cached path whose file on disk   *)
(* is newer than the entry's last refresh, the entry is unfresh, and the  *)
(* next Fetch of it loads once and returns contents no older than those   *)
(* that were on disk when it began.                                       *)
C7_ModifiedIsReloaded ==
    /\ \A p \in DOMAIN CacheMap : Modified(p) => ~files[CacheMap[p]].fresh
    /\ \A t \in Fetchers :
          (Returned(t) /\ want[t] > 0) =>
              /\ loads[t] = 1
              /\ ret[t].kind = "bytes" => (ret[t].b[1] = path[t] /\ ret[t].b[2] >= want[t])

(* C7 happens: such a Fetch returned bytes. *)
C7_Witness == \E t \in Fetchers : Returned(t) /\ want[t] > 0 /\ ret[t].kind = "bytes"

(* C8: a Fetch that is about to take a read lock (of the map, or of a     *)
(* file no writer asked for) gets it although another Fetch is inside its *)
(* render step, be it of another file or of the same one.                 *)
C8_ReadersDoNotBlockReaders ==
    \A t, u \in Fetchers :
        (t # u /\ pc[t] = "L204") =>
            /\ (pc[u] = "L128" /\ CacheMutex.w = {}) => ENABLED FetchRLock(u)
            /\ (pc[u] = "L133" /\ fmu[fe[u]].w = {}) => ENABLED FetchFileRLock(u)

(* C8 happens: two Fetches of distinct fresh files are both rendering. *)
C8_Witness ==
    \E t, u \in Fetchers :
        /\ pc[t] = "L204" /\ pc[u] = "L204"
        /\ fe[t] # fe[u] /\ path[t] # path[u]
        /\ loads[t] = 0 /\ loads[u] = 0

(* C9: LoadContents and SetUnfresh of a file of the map run under the     *)
(* file's write lock, Contents under its read lock: a file of the map     *)
(* changes only in a step from a state where its write lock is held, and  *)
(* no file is rendered while it is being loaded.                          *)
C9_Locked ==
    /\ \A t \in Fetchers :
          /\ pc[t] = "L141" => WHeld(fmu[fe[t]], t)
          /\ pc[t] = "L204" => (RHeld(fmu[fe[t]], t) /\ \A q \in Procs : ~WHeld(fmu[fe[t]], q))
    /\ mpc = "M72" => WHeld(fmu[CacheMap[mpath]], Monitor)

C9_Step ==
    \A i \in FileIds :
        (i \in Range(CacheMap) /\ i \in Range(CacheMap') /\ files'[i] # files[i]) =>
            \E q \in Procs : WHeld(fmu[i], q)

(* C9: the locks are held where the file is used (C9_Locked), and a file  *)
(* of the map changes only under its write lock (C9_Step).                *)
C9_LockedAccess == []C9_Locked /\ [][C9_Step]_vars

(* C9 happens: a Fetch is about to reload a file of the map while another *)
(* Fetch of the same file waits to read it.                               *)
C9_Witness ==
    \E t, u \in Fetchers :
        /\ pc[t] = "L141" /\ fe[t] \in Range(CacheMap)
        /\ pc[u] \in {"L133", "L151"} /\ fe[u] = fe[t]

(* C10: locks are requested in the order map, file, list: no goroutine    *)
(* asks for the map lock while it holds a file lock or the list lock, and *)
(* none asks for any lock while it holds the list lock.                   *)
RequestsMap(t) == pc[t] \in {"L128", "L156", "L156w", "L197"}
RequestsFile(t) == pc[t] \in {"L133", "L139", "L139w", "L151", "L159", "L200"}
RequestsList(t) == pc[t] = "L208"

(* C10: the lock order map, file, list holds in every reachable state. *)
C10_LockOrder ==
    /\ \A t \in Fetchers :
          /\ RequestsMap(t) => (\A i \in FileIds : t \notin fmu[i].r \cup fmu[i].w) /\ ~HoldsList(t)
          /\ RequestsFile(t) => ~HoldsList(t)
          /\ RequestsList(t) => ~HoldsList(t)
    /\ ~HoldsList(Monitor)
    /\ mpc = "sleep" => ~HoldsFile(Monitor)

(* C10 happens: a Fetch holds the list lock while another asks for it and *)
(* the monitor asks for a file lock.                                      *)
C10_Witness ==
    \E t, u \in Fetchers :
        /\ HoldsList(t) /\ HoldsMap(t)
        /\ RequestsList(u)
        /\ mpc = "M69w"

(* C11: a step of the monitor leaves the map, the list, and the contents, *)
(* path and last-refresh of every file alone; a file it changes at all    *)
(* was fresh, is unfresh afterwards, is the entry of the path the sweep   *)
(* is at, and the modification time the sweep read from disk is strictly  *)
(* greater than the file's last-refresh.  A failed stat changes no file.  *)
C11_Frame ==
    (monVars' # monVars) =>
        /\ CacheMap' = CacheMap
        /\ FileList' = FileList
        /\ \A i \in FileIds :
              /\ files'[i].data = files[i].data
              /\ files'[i].lastRefresh = files[i].lastRefresh
              /\ files'[i].path = files[i].path
              /\ files'[i] # files[i] =>
                    /\ files[i].fresh /\ ~files'[i].fresh
                    /\ mpc = "M72" /\ i = CacheMap[mpath]
                    /\ mt > files[i].lastRefresh
        /\ mpc' = mpc => files' = files

(* C11: every step of the monitor's sweep leaves CacheMap, FileList and   *)
(* every file's contents as they were; it changes at most fresh flags.    *)
C11_MonitorFrame == [][C11_Frame]_vars

(* C11 happens: the sweep has marked an entry unfresh and goes on. *)
C11_Witness ==
    /\ mpc = "M58"
    /\ \E p \in DOMAIN CacheMap : ~files[CacheMap[p]].fresh /\ files[CacheMap[p]].data # NoData

(* C16: a Fetch that holds the map write lock and goes on to call the     *)
(* factory, load and insert (L159-174) does so for a path the map does    *)
(* not hold: a path another Fetch has inserted meanwhile is not inserted  *)
(* again.  Stated as claimed; L156-159 does not look at the map again.    *)
C16_InsertOnce ==
    \A t \in Fetchers : pc[t] = "L159" => path[t] \notin DOMAIN CacheMap

(* C18: while a Fetch reloads an entry (it holds the entry's write lock   *)
(* at L141) the entry stays in the map and in the list: it is the map's   *)
(* entry of the path, it is an element of the list, no Fetch is inside    *)
(* the insert-and-evict section (L159-196), and no step removes it.       *)
Reloading(t) == pc[t] = "L141"

C18_Kept ==
    \A t \in Fetchers :
        Reloading(t) =>
            /\ WHeld(fmu[fe[t]], t)
            /\ path[t] \in DOMAIN CacheMap /\ CacheMap[path[t]] = fe[t]
            /\ fe[t] \in Range(FileList)
            /\ \A u \in Fetchers : pc[u] # "L159"

C18_Step ==
    \A t \in Fetchers :
        Reloading(t) => (fe[t] \in Range(CacheMap') /\ fe[t] \in Range(FileList'))

(* C18: while a Fetch reloads an entry (L141) the entry stays in CacheMap *)
(* and in FileList: no eviction runs during a reload.                     *)
C18_NoEvictionDuringReload == []C18_Kept /\ [][C18_Step]_vars

(* C18 happens: a Fetch reloads the one entry of a cache of capacity two  *)
(* while another Fetch waits for the map write lock: its insert will      *)
(* evict that entry (L177).                                               *)
C18_Witness ==
    \E t, u \in Fetchers :
        /\ Reloading(t)
        /\ Size = 2 /\ FileList = <<fe[t]>>
        /\ pc[u] = "L156w" /\ path[u] # path[t]

(* C19: a step that evicts (removes an element from the list) leaves the  *)
(* evicted file cleared: Clear has dropped its contents.  Stated as       *)
(* claimed; L176-193 removes the entry and calls nothing on its file.     *)
C19_Step ==
    \A i \in FileIds :
        (i \in Range(FileList) /\ i \notin Range(FileList')) => files'[i].data = NoData

(* C19: a file removed from FileList by the eviction has had its contents *)
(* cleared.  Stated as claimed; L178-192 calls nothing on the file.       *)
C19_EvictionClears == [][C19_Step]_vars

(* C17: under fair scheduling every Fetch that has begun returns, and     *)
(* every sweep of the monitor ends.  Stated as claimed; a Fetch is lost   *)
(* when the process dies at L187.                                         *)
C17_EveryFetchReturns ==
    /\ \A t \in Fetchers : (pc[t] # "idle") ~> (pc[t] = "idle")
    /\ (mpc # "sleep") ~> (mpc = "sleep")

(* What holds of the locking alone: every Fetch returns and every sweep   *)
(* ends unless the process dies.                                          *)
LocksAreLive ==
    /\ \A t \in Fetchers : (pc[t] # "idle") ~> (pc[t] = "idle" \/ crashed)
    /\ (mpc # "sleep") ~> (mpc = "sleep" \/ crashed)

(* C12: once cachePolicyFiles has run, every Fetch of a policy path is a  *)
(* hit that returns the generated buffer and loads nothing, and a         *)
(* generated entry of the map is fresh.  Stated as claimed; a policy file *)
(* that exists on disk at startup is not generated (L9-10, L28-29).       *)
C12_PolicyFilesAreHits ==
    (mpc # "boot") =>
        /\ \A t \in Fetchers :
              (Returned(t) /\ path[t] \in PolicyPaths) =>
                  /\ ret[t].kind = "bytes"
                  /\ ret[t].b = Generated(path[t])
                  /\ loads[t] = 0
        /\ \A p \in DOMAIN CacheMap : files[CacheMap[p]].gen => files[CacheMap[p]].fresh

(* C13: the sections readGophermap returns hold at most one DirListing,   *)
(* and it is the last.  Stated as claimed; the sections of an included    *)
(* gophermap are spliced in with the DirListing they end in (L150).       *)
C13_OneListingLast ==
    (gout.op = "load" /\ ~gout.err) =>
        \A k \in DOMAIN gc.sections : gc.sections[k].kind = "dir" => k = Len(gc.sections)

(* What Load computes for the root, and the root with other lines *)
RootParsed == readGophermap(gfs, RootMap, {})
WithRoot(ls) == [gfs EXCEPT ![RootMap] = Readable(ls)]
RootLine(k) == gfs[RootMap].lines[k]
Comment == Line("TypeComment", <<"#">>)
Includes(k, target) == RootLine(k) = Line("TypeSubGophermap", <<target>>)

(* C14: a gophermap with include directives that name itself parses as    *)
(* the same gophermap with those directives turned into comments does:    *)
(* the same sections, the same error, the same nesting and number of      *)
(* readGophermap calls.  If it includes no other gophermap the parse      *)
(* ends, and it is one call deep.                                         *)
SelfIncludes == {k \in DOMAIN gfs[RootMap].lines : Includes(k, RootMap)}
WithoutSelfIncludes ==
    [k \in DOMAIN gfs[RootMap].lines |-> IF k \in SelfIncludes THEN Comment ELSE RootLine(k)]

(* C14: a gophermap that includes itself parses, without error, to what   *)
(* it parses to with the self-including lines left out.                   *)
C14_SelfIncludeSkipped ==
    (gfs[RootMap].ok /\ SelfIncludes # {}) =>
        /\ RootParsed = readGophermap(WithRoot(WithoutSelfIncludes), RootMap, {})
        /\ (\A k \in DOMAIN gfs[RootMap].lines : ~Includes(k, SubMap)) =>
              (~RootParsed.hung /\ RootParsed.depth = 1 /\ RootParsed.calls = 1)
        /\ gout.op = "load" => (gc.sections = RootParsed.sections /\ gout.err = RootParsed.err)

(* C14 happens: Load has parsed a gophermap that begins with an include   *)
(* of itself and has stored the section of the line after it.             *)
C14_Witness ==
    /\ gout.op = "load" /\ ~gout.err
    /\ Len(gfs[RootMap].lines) >= 2 /\ Includes(1, RootMap)
    /\ RootLine(2).type = "TypeInfoNotStated"
    /\ Len(gc.sections) >= 1 /\ gc.sections[1] = NewGophermapText(<<buildInfoLine(RootLine(2).arg)>>)

(* C15: Render returns bytes and no error; the bytes are the sections'    *)
(* bytes one after the other in the order of the sections, a section      *)
(* whose Render fails standing as one error info line; there are as many  *)
(* error lines as failing sections; the sections stay as they were.       *)
Fails(section) == section.kind = "dir" /\ section.path \in gdirs
ErrorInfoLine == buildInfoLine(<<GophermapRenderErrorStr>>)
SectionBytes(section) ==
    IF Fails(section)
        THEN <<ErrorInfoLine>>
        ELSE IF section.kind = "text"
                 THEN section.contents
                 ELSE listDir(section.path, section.Hidden, {}).bytes

RECURSIVE Concat(_)
Concat(seqs) == IF seqs = << >> THEN << >> ELSE Head(seqs) \o Concat(Tail(seqs))

C15_Step ==
    (gout' # gout /\ gout'.op = "render") =>
        /\ ~gout'.err
        /\ gout'.bytes = Concat([k \in DOMAIN gc.sections |-> SectionBytes(gc.sections[k])])
        /\ Cardinality({k \in DOMAIN gout'.bytes : gout'.bytes[k] = ErrorInfoLine})
              = Cardinality({k \in DOMAIN gc.sections : Fails(gc.sections[k])})
        /\ gc' = gc
        /\ gfs' = gfs

(* C15: Render returns bytes for every section list, puts the render      *)
(* error line in place of a section that fails, and changes nothing.      *)
C15_RenderNeverFails == [][C15_Step]_vars

(* C15 happens: Render has returned the bytes of a text section followed  *)
(* by the error line of the directory listing that failed.                *)
C15_Witness ==
    /\ gout.op = "render"
    /\ Len(gc.sections) = 2
    /\ gc.sections[1].kind = "text" /\ Fails(gc.sections[2])
    /\ gout.bytes = gc.sections[1].contents \o <<ErrorInfoLine>>

(* C20: an include directive of the root whose target cannot be read      *)
(* leaves the parse of the root without error, and its sections are those *)
(* of the root with the directive turned into a comment, with one error   *)
(* text section put in where the directive stands: after the sections of  *)
(* the lines before it.  A directive the scan does not reach (a line      *)
(* before it ends the gophermap) changes nothing.                         *)
TargetFails(target) ==
    IF HasSuffix(target)
        THEN readGophermap(gfs, target, {RootMap}).err
        ELSE readIntoGophermap(gfs, target).err

FailingIncludes ==
    {k \in DOMAIN gfs[RootMap].lines :
        /\ RootLine(k).type = "TypeSubGophermap"
        /\ Rest(RootLine(k)) # RootMap
        /\ TargetFails(Rest(RootLine(k)))}

ErrorSection(target) ==
    NewGophermapText(<<buildInfoLine(<<"Error reading subgophermap: ", target>>)>>)

InsertAt(seq, n, x) == SubSeq(seq, 1, n) \o <<x>> \o SubSeq(seq, n + 1, Len(seq))

WithComment(k) == [j \in DOMAIN gfs[RootMap].lines |-> IF j = k THEN Comment ELSE RootLine(j)]

C20_Include(k) ==
    LET without == readGophermap(WithRoot(WithComment(k)), RootMap, {})
        before == readGophermap(WithRoot(SubSeq(gfs[RootMap].lines, 1, k - 1)), RootMap, {})
        reached == /\ ~before.hung
                   /\ \A j \in 1 .. k - 1 : RootLine(j).type \notin {"TypeEnd", "TypeEndBeginList"}
    IN  IF without.hung
            THEN RootParsed.hung
            ELSE /\ ~RootParsed.hung
                 /\ ~RootParsed.err
                 /\ RootParsed.sections =
                        IF reached
                            THEN InsertAt(without.sections, Len(before.sections),
                                          ErrorSection(Rest(RootLine(k))))
                            ELSE without.sections

(* C20: an include whose target cannot be read adds exactly one error     *)
(* info line in its place, and the parse of the parent goes on.           *)
C20_FailedIncludeIsOneErrorLine ==
    gfs[RootMap].ok =>
        /\ \A k \in FailingIncludes : C20_Include(k)
        /\ (gout.op = "load" /\ FailingIncludes # {}) =>
              (gc.sections = RootParsed.sections /\ ~gout.err)

(* C20 happens: Load has parsed a root whose second line includes an      *)
(* unreadable gophermap, between a line before and a line after: the      *)
(* sections are three, the error line in the middle.                      *)
C20_Witness ==
    /\ gout.op = "load" /\ ~gout.err
    /\ Len(gfs[RootMap].lines) = 3 /\ FailingIncludes = {2}
    /\ Includes(2, SubMap)
    /\ Len(gc.sections) = 3 /\ gc.sections[2] = ErrorSection(SubMap)

(* C21: a Fetch about to render (L204) renders the entry the map holds    *)
(* for its path: an entry that has been evicted is never rendered.        *)
(* Stated as claimed; the miss path renders the file it has created       *)
(* (L200-204) whether or not L177-192, its own or another Fetch's, has    *)
(* taken it out of the map.                                               *)
C21_RendersMember ==
    \A t \in Fetchers :
        pc[t] = "L204" => (path[t] \in DOMAIN CacheMap /\ CacheMap[path[t]] = fe[t])

(* The Fetches inside a section that changes FileList: PushFront and      *)
(* Remove of the miss path (L159-196; L187 when the process died there),  *)
(* MoveToFront (L209).                                                    *)
Inserting(t) == pc[t] \in {"L159", "L187"}
Moving(t) == pc[t] = "L209"
Mutators == {t \in Fetchers : Inserting(t) \/ Moving(t)}

(* C22: no two goroutines change FileList at the same time: a Fetch at    *)
(* MoveToFront holds ListMutex and the map read lock, a Fetch at          *)
(* PushFront/Remove holds the map write lock, and at most one Fetch is    *)
(* inside either section.                                                 *)
C22_ListMutationsExclude ==
    /\ \A t \in Fetchers : Moving(t) => (HoldsList(t) /\ RHeld(CacheMutex, t))
    /\ \A t \in Fetchers : Inserting(t) => WHeld(CacheMutex, t)
    /\ Cardinality(Mutators) <= 1

(* C22 happens: one Fetch is at MoveToFront while another Fetch, on the   *)
(* miss path, has asked for the map write lock and waits for it.          *)
C22_Witness ==
    \E t, u \in Fetchers :
        /\ Moving(t)
        /\ pc[u] = "L156w" /\ CacheMutex.w = {u}
        /\ FileList # << >>

(* C23: whenever a Fetch is about to evict (L177 finds the list at        *)
(* capacity), the path of the back element is a key of the map, so        *)
(* fc.CacheMap[removePath] (L187) is an entry and the process never dies  *)
(* there.  Stated as claimed; after two concurrent misses of one path the *)
(* list holds an element whose path the map has lost.                     *)
C23_EvictionFindsEntry ==
    /\ ~crashed
    /\ \A t \in Fetchers :
          (pc[t] = "L159" /\ disk[path[t]].exists /\ AtCapacity) =>
              RemovePath(path[t]) \in DOMAIN Inserted(path[t])

====
